---- MODULE Spec2Model ----
(***************************************************************************)
(* Model of tools/3d-gen/server.py: the module-level model handles, their  *)
(* lazy loaders and unloaders, and the request handlers that use them.     *)
(*                                                                         *)
(* A handle is None (0) or the identity of a loaded object.  Handlers are  *)
(* coroutines on one event loop: `cur` is the request that holds the loop; *)
(* it gives the loop up only at an await point or when it finishes.  Every *)
(* step makes at most one call of a loader or unloader and records it in   *)
(* `ev`, together with the operations that ended in that step.             *)
(***************************************************************************)
EXTENDS Integers, Sequences, FiniteSets

VARIABLES
    triposg_pipe,        \* server.py:82
    rmbg_net,            \* server.py:83
    hunyuan3d_pipe,      \* server.py:143
    hunyuan3d_text2img,  \* server.py:144
    hunyuan3d_paint,     \* server.py:220
    torch_ok,            \* whether `import torch` succeeds in this deployment
    server,              \* lifespan: "up", "stopping" (after unload_triposg), "down"
    req,                 \* per request slot: the handler's position and locals
    cur,                 \* the request that holds the event loop, 0 if none
    ev                   \* what the last step did

vars == <<triposg_pipe, rmbg_net, hunyuan3d_pipe, hunyuan3d_text2img,
          hunyuan3d_paint, torch_ok, server, req, cur, ev>>

\* ---------------------------------------------------------------- bounds

MaxAtt == 2

Requests == {1, 2}

\* ------------------------------------------------------------- constants

None == 0

MAX_PAINT_FACES == 50000

\* Face counts of the meshes handed to /paint.
FaceCounts == {10000, 50000, 50001, 80000}

\* ------------------------------------------------------ residency state

G == [triposg_pipe |-> triposg_pipe, rmbg_net |-> rmbg_net,
      hunyuan3d_pipe |-> hunyuan3d_pipe,
      hunyuan3d_text2img |-> hunyuan3d_text2img,
      hunyuan3d_paint |-> hunyuan3d_paint]

SetG(m) ==
    /\ triposg_pipe' = m.triposg_pipe
    /\ rmbg_net' = m.rmbg_net
    /\ hunyuan3d_pipe' = m.hunyuan3d_pipe
    /\ hunyuan3d_text2img' = m.hunyuan3d_text2img
    /\ hunyuan3d_paint' = m.hunyuan3d_paint

NoModels == [triposg_pipe |-> None, rmbg_net |-> None, hunyuan3d_pipe |-> None,
             hunyuan3d_text2img |-> None, hunyuan3d_paint |-> None]

\* Identities of the objects that are still referenced, by a module-level
\* handle or by a handler's local variable.  Handles of different classes are
\* never compared, so identities are per class.
Live(class) ==
    (CASE class = "triposg" -> {triposg_pipe, rmbg_net}
       [] class = "hunyuan3d" -> {hunyuan3d_pipe}
       [] class = "text2img" -> {hunyuan3d_text2img}
       [] class = "paint" -> {hunyuan3d_paint})
    \cup {req[r].pipe : r \in {x \in Requests : req[x].holds = class}}

\* A newly constructed object is distinct from every object still referenced.
NewObject(class) ==
    CHOOSE n \in 1..(Cardinality(Requests) + 3) :
        /\ n \notin Live(class)
        /\ \A k \in 1..(n - 1) : k \in Live(class)

\* What a from_pretrained / constructor call can do: succeed, or raise
\* (ImportError or any other exception).  Without torch every import fails.
LoadOutcomes == IF torch_ok THEN {"ok", "fail"} ELSE {"fail"}

\* get_triposg_models loads RMBG first and the pipeline second, so a load can
\* also raise between the two assignments.
TripoOutcomes == IF torch_ok THEN {"ok", "partial", "fail"} ELSE {"fail"}

\* Result of a loader or unloader call: the handles after it, the value it
\* returns, whether it constructed anything, whether it raised.
Call(fn, m, ret, loaded, raised) ==
    [fn |-> fn, m |-> m, ret |-> ret, loaded |-> loaded, raised |-> raised]

NoCall == Call("", G, None, FALSE, FALSE)

get_triposg_models(m, out, id) ==
    IF m.triposg_pipe # None
    THEN Call("get_triposg_models", m, m.triposg_pipe, FALSE, FALSE)
    ELSE IF out = "ok"
    THEN Call("get_triposg_models",
              [m EXCEPT !.rmbg_net = id, !.triposg_pipe = id], id, TRUE, FALSE)
    ELSE IF out = "partial"
    THEN Call("get_triposg_models", [m EXCEPT !.rmbg_net = id], None, TRUE, FALSE)
    ELSE Call("get_triposg_models", m, None, FALSE, FALSE)

\* unload_triposg that tests the pipeline handle only.
unload_triposg_pipe_only(m) ==
    IF m.triposg_pipe # None
    THEN IF torch_ok
         THEN Call("unload_triposg",
                   [m EXCEPT !.triposg_pipe = None, !.rmbg_net = None],
                   None, FALSE, FALSE)
         ELSE Call("unload_triposg", m, None, FALSE, TRUE)
    ELSE Call("unload_triposg", m, None, FALSE, FALSE)

unload_triposg(m) ==
    IF m.triposg_pipe # None \/ m.rmbg_net # None
    THEN IF torch_ok
         THEN Call("unload_triposg",
                   [m EXCEPT !.triposg_pipe = None, !.rmbg_net = None],
                   None, FALSE, FALSE)
         ELSE Call("unload_triposg", m, None, FALSE, TRUE)
    ELSE Call("unload_triposg", m, None, FALSE, FALSE)

\* get_hunyuan3d_model without its `is not None` test: every call loads.
get_hunyuan3d_model_reloads(m, out, id) ==
    IF out = "ok"
    THEN Call("get_hunyuan3d_model", [m EXCEPT !.hunyuan3d_pipe = id], id, TRUE, FALSE)
    ELSE Call("get_hunyuan3d_model", m, None, FALSE, FALSE)

get_hunyuan3d_model(m, out, id) ==
    IF m.hunyuan3d_pipe # None
    THEN Call("get_hunyuan3d_model", m, m.hunyuan3d_pipe, FALSE, FALSE)
    ELSE IF out = "ok"
    THEN Call("get_hunyuan3d_model", [m EXCEPT !.hunyuan3d_pipe = id], id, TRUE, FALSE)
    ELSE Call("get_hunyuan3d_model", m, None, FALSE, FALSE)

get_hunyuan3d_text2img(m, out, id) ==
    IF m.hunyuan3d_text2img # None
    THEN Call("get_hunyuan3d_text2img", m, m.hunyuan3d_text2img, FALSE, FALSE)
    ELSE IF out = "ok"
    THEN Call("get_hunyuan3d_text2img", [m EXCEPT !.hunyuan3d_text2img = id],
              id, TRUE, FALSE)
    ELSE Call("get_hunyuan3d_text2img", m, None, FALSE, FALSE)

\* unload_hunyuan3d that forgets the shape pipeline.
unload_hunyuan3d_text2img_only(m) ==
    IF ~torch_ok
    THEN Call("unload_hunyuan3d", m, None, FALSE, TRUE)
    ELSE Call("unload_hunyuan3d", [m EXCEPT !.hunyuan3d_text2img = None],
              None, FALSE, FALSE)

\* unload_hunyuan3d that forgets the text-to-image model.
unload_hunyuan3d_shape_only(m) ==
    IF ~torch_ok
    THEN Call("unload_hunyuan3d", m, None, FALSE, TRUE)
    ELSE Call("unload_hunyuan3d", [m EXCEPT !.hunyuan3d_pipe = None],
              None, FALSE, FALSE)

unload_hunyuan3d(m) ==
    IF ~torch_ok
    THEN Call("unload_hunyuan3d", m, None, FALSE, TRUE)
    ELSE Call("unload_hunyuan3d",
              [m EXCEPT !.hunyuan3d_pipe = None, !.hunyuan3d_text2img = None],
              None, FALSE, FALSE)

get_hunyuan3d_paint(m, out, id) ==
    IF m.hunyuan3d_paint # None
    THEN Call("get_hunyuan3d_paint", m, m.hunyuan3d_paint, FALSE, FALSE)
    ELSE IF out = "ok"
    THEN Call("get_hunyuan3d_paint", [m EXCEPT !.hunyuan3d_paint = id], id, TRUE, FALSE)
    ELSE Call("get_hunyuan3d_paint", m, None, FALSE, FALSE)

\* unload_hunyuan3d_paint without its `global` declaration: the module's
\* handle keeps the pipeline.
unload_hunyuan3d_paint_local(m) ==
    IF ~torch_ok
    THEN Call("unload_hunyuan3d_paint", m, None, FALSE, TRUE)
    ELSE Call("unload_hunyuan3d_paint", m, None, FALSE, FALSE)

unload_hunyuan3d_paint(m) ==
    IF ~torch_ok
    THEN Call("unload_hunyuan3d_paint", m, None, FALSE, TRUE)
    ELSE Call("unload_hunyuan3d_paint", [m EXCEPT !.hunyuan3d_paint = None],
              None, FALSE, FALSE)

\* ------------------------------------------- slots and positioning

\* Slot fractions of the bounding box, in hundredths.
SLOT_MAP ==
    [head |-> <<50, 100, 50>>,
     left_hand |-> <<10, 55, 50>>,
     right_hand |-> <<90, 55, 50>>,
     left_arm |-> <<15, 65, 50>>,
     right_arm |-> <<85, 65, 50>>,
     chest_front |-> <<50, 65, 85>>,
     chest_back |-> <<50, 65, 15>>,
     waist |-> <<50, 40, 50>>,
     left_leg |-> <<30, 10, 50>>,
     right_leg |-> <<70, 10, 50>>,
     top |-> <<50, 110, 50>>,
     bottom |-> <<50, -5, 50>>]

\* Bounding boxes <<min, max>> of the base mesh, in whole units.
Boxes ==
    {<<c, <<c[1] + 2, c[2] + h, c[3] + 2>>>> :
        c \in {<<0, 0, 0>>, <<-1, 1, 2>>}, h \in {2, 4}}

\* Slot names of a request: the twelve of the table and one that is not.
AttSlots == DOMAIN SLOT_MAP \cup {"tail"}

\* Attachment meshes, as their vertices in hundredths of a unit; the
\* centroid of each is not at the origin.
Meshes ==
    {<< <<0, 0, 0>>, <<200, 0, 0>>, <<400, 300, 0>> >>,
     << <<-100, 100, 100>>, <<-100, 100, 500>> >>}

\* att.scale
Scales == {1, 2, 3}

\* get_slot_position that indexes the table without the fallback: KeyError.
get_slot_position_strict(bounds, slot) ==
    IF slot \notin DOMAIN SLOT_MAP
    THEN [raised |-> TRUE, pos |-> <<0, 0, 0>>]
    ELSE [raised |-> FALSE,
          pos |-> [k \in 1..3 |->
                     100 * bounds[1][k] + (bounds[2][k] - bounds[1][k]) * SLOT_MAP[slot][k]]]

\* get_slot_position that forgets the box's min corner.
get_slot_position_from_origin(bounds, slot) ==
    LET name == IF slot \notin DOMAIN SLOT_MAP THEN "top" ELSE slot
        size == [k \in 1..3 |-> bounds[2][k] - bounds[1][k]]
        fracs == SLOT_MAP[name]
    IN [raised |-> FALSE, pos |-> [k \in 1..3 |-> size[k] * fracs[k]]]

\* The position of a slot on a mesh's bounding box, in hundredths of a unit.
get_slot_position(bounds, slot) ==
    LET name == IF slot \notin DOMAIN SLOT_MAP THEN "top" ELSE slot
        bb_min == bounds[1]
        bb_max == bounds[2]
        size == [k \in 1..3 |-> bb_max[k] - bb_min[k]]
        fracs == SLOT_MAP[name]
    IN [raised |-> FALSE,
        pos |-> [k \in 1..3 |-> 100 * bb_min[k] + size[k] * fracs[k]]]

apply_scale(mesh, scale) ==
    [j \in 1..Len(mesh) |-> [k \in 1..3 |-> mesh[j][k] * scale]]

apply_translation(mesh, t) ==
    [j \in 1..Len(mesh) |-> [k \in 1..3 |-> mesh[j][k] + t[k]]]

RECURSIVE SumOf(_, _, _)
SumOf(mesh, k, n) == IF n = 0 THEN 0 ELSE mesh[n][k] + SumOf(mesh, k, n - 1)

\* mesh.centroid, for meshes whose vertices all weigh the same.
centroid(mesh) == [k \in 1..3 |-> SumOf(mesh, k, Len(mesh)) \div Len(mesh)]

\* What the source resolution of a base or attachment read of its request
\* (glb_path, text prompt, engine, image_path, search_query) and the branch
\* it took. The if/elif chain stops reading at the first test that holds,
\* and `and` reads the engine only when the text prompt is not empty: a
\* field that was not read is recorded as empty.
Resolution(base, glb, text, engine, img, query, route) ==
    LET readText == glb = ""
        readEngine == readText /\ text
        readImg == readText /\ route # "text"
        readQuery == readImg /\ img = ""
    IN [base |-> base, glb |-> glb,
        text |-> readText /\ text,
        engine |-> IF readEngine THEN engine ELSE "",
        img |-> IF readImg THEN img ELSE "",
        query |-> readQuery /\ query,
        route |-> route]

NoResolution == Resolution(FALSE, "", FALSE, "", "", FALSE, "")

\* What the positioning of one attachment did.
Placement(slot, bounds, scale, mesh, raised, slot_pos, result) ==
    [slot |-> slot, bounds |-> bounds, scale |-> scale, mesh |-> mesh,
     raised |-> raised, slot_pos |-> slot_pos, result |-> result]

NoPlacement == Placement("", <<>>, 0, <<>>, FALSE, <<>>, <<>>)

\* Positioning that translates to the slot first and scales afterwards.
PositionAttachmentScalesLast(att_mesh, scale, base_bounds, slot) ==
    LET p == get_slot_position(base_bounds, slot)
        att_center == centroid(att_mesh)
        translation == [k \in 1..3 |-> p.pos[k] - att_center[k]]
        moved == apply_translation(att_mesh, translation)
    IN Placement(slot, base_bounds, scale, att_mesh, p.raised, p.pos,
                 IF scale # 1 THEN apply_scale(moved, scale) ELSE moved)

\* assemble_bot, lines 926-936: scale the attachment, compute the slot
\* position on the base, move the attachment's centroid there.
PositionAttachment(att_mesh, scale, base_bounds, slot) ==
    LET scaled == IF scale # 1 THEN apply_scale(att_mesh, scale) ELSE att_mesh
        p == get_slot_position(base_bounds, slot)
        att_center == centroid(scaled)
        translation == [k \in 1..3 |-> p.pos[k] - att_center[k]]
    IN Placement(slot, base_bounds, scale, att_mesh, p.raised, p.pos,
                 IF p.raised THEN <<>> ELSE apply_translation(scaled, translation))

\* ------------------------------------------------------- request state

Kinds == {"generate", "generate_text", "assemble", "rig", "paint"}

\* The handler function behind each request kind ("h3d" is a direct call of
\* the helper _generate_hunyuan3d).
OpOf(kind) ==
    CASE kind = "generate" -> "generate_3d"
      [] kind = "generate_text" -> "generate_text_3d"
      [] kind = "assemble" -> "assemble_bot"
      [] kind = "rig" -> "rig_bot"
      [] kind = "paint" -> "paint_bot"
      [] kind = "h3d" -> "_generate_hunyuan3d"

Idle ==
    [kind |-> "idle", pc |-> "idle", stage |-> "",
     pipe |-> None,             \* local `pipe` / `paint_pipe`
     holds |-> "",              \* the class of the object `pipe` refers to
     prompt |-> FALSE,          \* _generate_hunyuan3d: prompt is truthy
     image |-> FALSE,           \* _generate_hunyuan3d: image is not None
     engine |-> "", imgfile |-> "",
     i |-> 0,                   \* attachment loop index
     base_ref_image |-> FALSE,  \* local base_ref_image is set and non-empty
     base_src |-> "",           \* the branch of step 1 that gave the base
     parts |-> <<>>,            \* generated_parts: 0 for the base, k for attachment k
     calls |-> <<>>,            \* generation calls made by assemble_bot, as in parts
     nogen |-> {},              \* base and attachments taken as GLB files or skipped
     auto_rig |-> FALSE, auto_paint |-> FALSE,
     meshes |-> 0,              \* len(positioned_meshes) while the loop runs
     merged_path |-> "", file_size |-> "",   \* result[...]: of which file
     rig_error |-> "", rigged |-> "",
     paint_error |-> "", painted |-> FALSE,
     rig_input |-> "",          \* the glb_path assemble_bot gave to rig_bot
     paint_input |-> "",        \* the glb_path assemble_bot gave to paint_bot
     rig_status |-> 0,          \* how rig_bot ended inside assemble_bot (0: not called)
     paint_status |-> 0,        \* how paint_bot ended inside assemble_bot
     faces |-> 0,               \* len(mesh.faces) in paint_bot
     pend |-> 0, pendErr |-> "",\* the exception paint_bot's handler re-raises
     touched |-> FALSE,         \* this request changed a module-level handle
     acquired |-> FALSE,        \* this request called a get_* loader
     loadFailed |-> FALSE]      \* a get_* loader returned None to this request

\* Handlers suspended in an await that yields to the event loop.
AwaitPcs == {"g_await", "a_base_search", "a_att_search", "p_search"}

Parked == AwaitPcs \cup {"idle"}

Getters == {"get_triposg_models", "get_hunyuan3d_model",
            "get_hunyuan3d_text2img", "get_hunyuan3d_paint"}

Unloaders == {"unload_triposg", "unload_hunyuan3d", "unload_hunyuan3d_paint"}

\* The request's bookkeeping after a loader or unloader call c.
Noted(q, c) ==
    [q EXCEPT !.touched = @ \/ c.m # G,
              !.acquired = @ \/ c.fn \in Getters,
              !.loadFailed = @ \/ (c.fn \in Getters /\ c.ret = None)]

\* What the caller of a finished request sees.
Resp(q, code, err) ==
    [kind |-> q.kind, status |-> code, err |-> err,
     stage |-> q.stage,         \* the stage of assemble_bot that ended the run
     merged_path |-> q.merged_path, file_size |-> q.file_size,
     parts |-> q.parts, calls |-> q.calls, nogen |-> q.nogen,
     rig_error |-> q.rig_error, rigged |-> q.rigged,
     paint_error |-> q.paint_error, painted |-> q.painted,
     rig_input |-> q.rig_input, paint_input |-> q.paint_input,
     rig_status |-> q.rig_status, paint_status |-> q.paint_status,
     touched |-> q.touched, acquired |-> q.acquired,
     loadFailed |-> q.loadFailed]

NoResp == Resp(Idle, 0, "")

\* A backend invocation: which model object was called, on how many faces.
Backend(model, handle, faces) == [model |-> model, handle |-> handle, faces |-> faces]

NoBackend == Backend("", None, 0)

\* Outcome of a step for the request taking it: its next record, the
\* operations that ended in the step, each with the status it ended with
\* (200 for a normal return, 0 for a cancellation), and the response if the
\* request's handler ended.
Outcome(q, done, resp) ==
    [q |-> q, done |-> done, resp |-> resp, note |-> "", placed |-> NoPlacement,
     src |-> NoResolution]

\* The outcome o of a step that resolved the source of a base or attachment.
Resolving(res, o) == [o EXCEPT !.src = res]

\* The outcome o of a step that positioned an attachment.
Placing(pl, o) == [o EXCEPT !.placed = pl]

\* The outcome o, taken because of `note`: the case of the input or of the
\* environment that decided the step.
Because(note, o) == [o EXCEPT !.note = note]

Go(q) == Outcome(q, {}, NoResp)

\* The operation `op`, called by the handler, ended; the handler goes on.
Sub(q, op, code) == Outcome(q, {<<op, code>>}, NoResp)

\* The handler ended with `code`; `sub` are the operations it called that
\* ended with it.
Finish(q, sub, code, err) ==
    Outcome(Idle, {<<OpOf(q.kind), code>>} \cup sub, Resp(q, code, err))

Step(r, c, b, o) ==
    /\ req' = [req EXCEPT ![r] = o.q]
    /\ SetG(c.m)
    /\ cur' = IF o.q.pc \in Parked THEN 0 ELSE r
    /\ ev' = [r |-> r, fn |-> c.fn, ret |-> c.ret, loaded |-> c.loaded,
              raised |-> c.raised, changed |-> c.m # G, backend |-> b,
              done |-> o.done, resp |-> o.resp, note |-> o.note,
              placed |-> o.placed, src |-> o.src]
    /\ UNCHANGED <<torch_ok, server>>

Runs(r, pc) == cur = r /\ req[r].pc = pc

Resumes(r, pc) == cur = 0 /\ server = "up" /\ req[r].pc = pc

\* ------------------------------------------------ POST /generate (427-527)

GenGet(r) ==
    /\ Runs(r, "g_get")
    /\ \E out \in TripoOutcomes :
         LET c == get_triposg_models(G, out, NewObject("triposg"))
             q == Noted(req[r], c)
         IN Step(r, c, NoBackend,
                 IF c.ret = None
                 THEN Finish(q, {}, 503, "model_unavailable")
                 ELSE Go([q EXCEPT !.pc = "g_await", !.pipe = c.ret, !.holds = "triposg"]))

\* `await file.read()` returns; Image.open may raise.
GenRead(r) ==
    /\ Resumes(r, "g_await")
    /\ \E ok \in BOOLEAN :
         Step(r, NoCall, NoBackend,
              IF ok THEN Go([req[r] EXCEPT !.pc = "g_infer"])
              ELSE Finish(req[r], {}, 500, "generation_failed"))

\* prepare_image(rmbg_net=rmbg), pipe(...), export: each may raise.
GenInfer(r) ==
    /\ Runs(r, "g_infer")
    /\ \E ok \in BOOLEAN :
         Step(r, NoCall, Backend("triposg", req[r].pipe, 0),
              IF ok THEN Finish(req[r], {}, 200, "")
              ELSE Finish(req[r], {}, 500, "generation_failed"))

\* --------------------------------------- _generate_hunyuan3d (554-636)

\* assemble_bot with a try/except inside the attachment loop that skips an
\* attachment whose generation failed.
RaiseH3dSkipsAttachment(q, code, err) ==
    LET status == IF code = 0 THEN 500 ELSE code
    IN IF q.kind = "assemble" /\ q.stage = "att"
       THEN Outcome([q EXCEPT !.i = @ + 1, !.pc = "a_att", !.engine = "",
                              !.pipe = None, !.holds = "", !.prompt = FALSE,
                              !.image = FALSE],
                    {<<"_generate_hunyuan3d", status>>}, NoResp)
       ELSE Finish(q, {<<"_generate_hunyuan3d", status>>}, status, err)

\* An exception leaves _generate_hunyuan3d: every caller re-raises an
\* HTTPException and turns anything else into a 500 (code 0: not an
\* HTTPException).
RaiseH3d(q, code, err) ==
    LET status == IF code = 0 THEN 500 ELSE code
    IN Finish(q, {<<"_generate_hunyuan3d", status>>}, status, err)

\* assemble_bot that does not keep the base's ref_image_path.
ReturnH3dDropsRefImage(q) ==
    IF q.kind = "assemble"
    THEN IF q.stage = "base"
         THEN Sub([q EXCEPT !.pc = "a_load_base", !.pipe = None, !.holds = "",
                            !.parts = Append(@, 0)],
                  "_generate_hunyuan3d", 200)
         ELSE Sub([q EXCEPT !.pc = "a_load_att", !.pipe = None, !.holds = "",
                            !.parts = Append(@, q.i + 1)],
                  "_generate_hunyuan3d", 200)
    ELSE Finish(q, {<<"_generate_hunyuan3d", 200>>}, 200, "")

ReturnH3d(q) ==
    IF q.kind = "assemble"
    THEN IF q.stage = "base"
         THEN Sub([q EXCEPT !.pc = "a_load_base", !.pipe = None, !.holds = "",
                            !.base_ref_image = q.prompt,
                            !.parts = Append(@, 0)],
                  "_generate_hunyuan3d", 200)
         ELSE Sub([q EXCEPT !.pc = "a_load_att", !.pipe = None, !.holds = "",
                            !.parts = Append(@, q.i + 1)],
                  "_generate_hunyuan3d", 200)
    ELSE Finish(q, {<<"_generate_hunyuan3d", 200>>}, 200, "")

\* import torch; pipe = get_hunyuan3d_model(); then the dispatch on the input.
H3dGet(r) ==
    /\ Runs(r, "h_get")
    /\ IF ~torch_ok
       THEN Step(r, NoCall, NoBackend, RaiseH3d(req[r], 0, "import_error"))
       ELSE \E out \in LoadOutcomes :
              LET c == get_hunyuan3d_model(G, out, NewObject("hunyuan3d"))
                  q == Noted(req[r], c)
              IN Step(r, c, NoBackend,
                      IF c.ret = None
                      THEN RaiseH3d(q, 503, "model_unavailable")
                      ELSE IF ~q.image /\ q.prompt
                      THEN Go([q EXCEPT !.pc = "h_t2i", !.pipe = c.ret, !.holds = "hunyuan3d"])
                      ELSE IF ~q.image
                      THEN RaiseH3d(q, 400, "empty_input")
                      ELSE Go([q EXCEPT !.pc = "h_shape", !.pipe = c.ret, !.holds = "hunyuan3d"]))

\* text2img = get_hunyuan3d_text2img(); image = text2img(prompt, seed=seed)
H3dText2Img(r) ==
    /\ Runs(r, "h_t2i")
    /\ \E out \in LoadOutcomes, ok \in BOOLEAN :
         LET c == get_hunyuan3d_text2img(G, out, NewObject("text2img"))
             q == Noted(req[r], c)
         IN Step(r, c,
                 IF c.ret = None THEN NoBackend ELSE Backend("text2img", c.ret, 0),
                 IF c.ret = None
                 THEN RaiseH3d(q, 503, "model_unavailable")
                 ELSE IF ok
                 THEN Go([q EXCEPT !.pc = "h_shape", !.image = TRUE])
                 ELSE RaiseH3d(q, 0, "generation_failed"))

\* mesh = pipe(image=...); _reduce_faces; mesh.export; image.save
H3dShape(r) ==
    /\ Runs(r, "h_shape")
    /\ \E ok \in BOOLEAN :
         Step(r, NoCall, Backend("hunyuan3d", req[r].pipe, 0),
              IF ok THEN ReturnH3d(req[r])
              ELSE RaiseH3d(req[r], 0, "generation_failed"))

\* ---------------------------------------- POST /generate-text (642-662)

GenTextCheck(r) ==
    /\ Runs(r, "t_check")
    /\ \E blank \in BOOLEAN :
         Step(r, NoCall, NoBackend,
              IF blank THEN Finish(req[r], {}, 400, "empty_input")
              ELSE Go([req[r] EXCEPT !.pc = "t_unload", !.prompt = TRUE]))

\* generate_text_3d that calls _generate_hunyuan3d without unload_triposg().
GenTextKeepsTriposg(r) ==
    /\ Runs(r, "t_unload")
    /\ Step(r, NoCall, NoBackend, Go([req[r] EXCEPT !.pc = "h_get"]))

GenTextUnload(r) ==
    /\ Runs(r, "t_unload")
    /\ LET c == unload_triposg(G)
           q == Noted(req[r], c)
       IN Step(r, c, NoBackend,
               IF c.raised THEN Finish(q, {}, 500, "import_error")
               ELSE Go([q EXCEPT !.pc = "h_get"]))

\* -------------------------------------- _generate_from_bytes (1012-1090)

\* _generate_from_bytes whose result is appended for the base only.
GfbReturnDropsEntry(q) ==
    IF q.stage = "base"
    THEN Sub([q EXCEPT !.pc = "a_load_base", !.pipe = None, !.holds = "", !.parts = Append(@, 0)],
             "_generate_from_bytes", 200)
    ELSE Sub([q EXCEPT !.pc = "a_load_att", !.pipe = None, !.holds = ""],
             "_generate_from_bytes", 200)

GfbReturn(q) ==
    IF q.stage = "base"
    THEN Sub([q EXCEPT !.pc = "a_load_base", !.pipe = None, !.holds = "", !.parts = Append(@, 0)],
             "_generate_from_bytes", 200)
    ELSE Sub([q EXCEPT !.pc = "a_load_att", !.pipe = None, !.holds = "",
                       !.parts = Append(@, q.i + 1)],
             "_generate_from_bytes", 200)

\* import torch; pipe, rmbg = get_triposg_models()
GfbGet(r) ==
    /\ Runs(r, "b_get")
    /\ IF ~torch_ok
       THEN Step(r, NoCall, NoBackend,
                 Finish(req[r], {<<"_generate_from_bytes", 500>>}, 500, "import_error"))
       ELSE \E out \in TripoOutcomes :
              LET c == get_triposg_models(G, out, NewObject("triposg"))
                  q == Noted(req[r], c)
              IN Step(r, c, NoBackend,
                      IF c.ret = None
                      THEN Finish(q, {<<"_generate_from_bytes", 503>>}, 503,
                                  "model_unavailable")
                      ELSE Go([q EXCEPT !.pc = "b_infer", !.pipe = c.ret, !.holds = "triposg"]))

\* Image.open, prepare_image, pipe(...), mesh.export
GfbInfer(r) ==
    /\ Runs(r, "b_infer")
    /\ \E ok \in BOOLEAN :
         Step(r, NoCall, Backend("triposg", req[r].pipe, 0),
              IF ok THEN GfbReturn(req[r])
              ELSE Finish(req[r], {<<"_generate_from_bytes", 500>>}, 500,
                          "generation_failed"))

\* ------------------------------------------------ POST /rig (1096-1185)

\* assemble_bot that merges again after the rig stage.
AfterRigRemerges(q, sub) ==
    IF q.auto_paint
    THEN Outcome([q EXCEPT !.pc = "a_merge", !.stage = "merge", !.auto_paint = FALSE],
                 sub, NoResp)
    ELSE Finish(q, sub, 200, "")

\* assemble_bot whose paint stage takes the rigged file when there is one.
AfterRigPaintsRigged(q, sub) ==
    IF q.auto_paint
    THEN Outcome([q EXCEPT !.pc = "p_path", !.stage = "paint",
                           !.paint_input = IF q.rigged = "rigged" THEN "rigged"
                                           ELSE q.merged_path],
                 sub, NoResp)
    ELSE Finish(q, sub, 200, "")

\* assemble_bot after the rig stage: the paint stage if auto_paint is set,
\* on the file result["merged_path"] names, else `return result`.  `sub` is
\* what ended in the rig stage.
AfterRig(q, sub) ==
    IF q.auto_paint
    THEN Outcome([q EXCEPT !.pc = "p_path", !.stage = "paint",
                           !.paint_input = q.merged_path],
                 sub, NoResp)
    ELSE Finish(q, sub, 200, "")

\* rig_bot whose `except Exception` comes first: every error becomes the
\* generic 500.
RaiseRigGeneric(q, code, err) ==
    IF q.kind = "assemble"
    THEN IF q.auto_paint
         THEN Outcome([q EXCEPT !.rig_error = "internal", !.rig_status = 500,
                                !.pc = "p_path", !.stage = "paint"],
                      {<<"rig_bot", 500>>}, NoResp)
         ELSE Finish([q EXCEPT !.rig_error = "internal", !.rig_status = 500],
                     {<<"rig_bot", 500>>}, 200, "")
    ELSE Finish(q, {}, 500, "internal")

\* assemble_bot without the try/except around rig_bot: the error propagates.
RaiseRigPropagates(q, code, err) ==
    IF q.kind = "assemble"
    THEN Finish([q EXCEPT !.rig_status = code], {<<"rig_bot", code>>}, code, err)
    ELSE Finish(q, {}, code, err)

\* rig_bot raises: /rig answers with the status, assemble_bot records
\* rig_error and goes on.
RaiseRig(q, code, err) ==
    IF q.kind = "assemble"
    THEN AfterRig([q EXCEPT !.rig_error = err, !.rig_status = code],
                  {<<"rig_bot", code>>})
    ELSE Finish(q, {}, code, err)

\* rig_bot returns its response; rigged_path is a path or None.
ReturnRig(q, rigged_path) ==
    IF q.kind = "assemble"
    THEN AfterRig([q EXCEPT !.rigged = rigged_path, !.rig_status = 200],
                  {<<"rig_bot", 200>>})
    ELSE Finish([q EXCEPT !.rigged = rigged_path], {}, 200, "")

\* The GLB is looked up; then unload_triposg().  assemble_bot passes the file
\* it has just written.
RigPath(r) ==
    /\ Runs(r, "r_path")
    /\ \E exists \in (IF req[r].kind = "assemble" THEN {TRUE} ELSE BOOLEAN) :
         IF ~exists
         THEN Step(r, NoCall, NoBackend, RaiseRig(req[r], 404, "not_found"))
         ELSE LET c == unload_triposg(G)
                  q == Noted(req[r], c)
              IN Step(r, c, NoBackend,
                      IF c.raised THEN RaiseRig(q, 500, "import_error")
                      ELSE Go([q EXCEPT !.pc = "r_run"]))

RigOutcomes == {"no_python", "no_wrapper", "timeout", "nonzero", "exception",
                "ok_output", "ok_no_output"}

\* The try block: interpreter and wrapper lookup, subprocess.run, the check
\* of the return code and of the output file.
RigRun(r) ==
    /\ Runs(r, "r_run")
    /\ \E out \in RigOutcomes :
         Step(r, NoCall, NoBackend,
              CASE out = "no_python" -> RaiseRig(req[r], 503, "tool_missing")
                [] out = "no_wrapper" -> RaiseRig(req[r], 503, "tool_missing")
                [] out = "timeout" -> Because("timeout", RaiseRig(req[r], 504, "timeout"))
                [] out = "nonzero" ->
                     Because("nonzero", RaiseRig(req[r], 500, "tool_failed"))
                [] out = "exception" -> RaiseRig(req[r], 500, "internal")
                [] out = "ok_output" -> ReturnRig(req[r], "rigged")
                [] out = "ok_no_output" -> ReturnRig(req[r], "none"))

\* ---------------------------------------------- POST /paint (1191-1302)

\* assemble_bot without the try/except around paint_bot: the error propagates.
RaisePaintPropagates(q, code, err) ==
    LET status == IF code = 0 THEN 500 ELSE code
    IN IF q.kind = "assemble"
       THEN Finish([q EXCEPT !.paint_status = status], {<<"paint_bot", status>>},
                   status, err)
       ELSE Finish(q, {}, status, err)

\* assemble_bot that points merged_path at the painted file before paint_bot
\* has produced it.
RaisePaintSupersedes(q, code, err) ==
    LET status == IF code = 0 THEN 500 ELSE code
    IN IF q.kind = "assemble"
       THEN Finish([q EXCEPT !.paint_error = err, !.paint_status = status,
                             !.merged_path = "painted", !.file_size = "painted"],
                   {<<"paint_bot", status>>}, 200, "")
       ELSE Finish(q, {}, status, err)

\* An exception leaves paint_bot (code 0: not an HTTPException, reported as
\* 500): /paint answers with the status, assemble_bot records paint_error
\* and returns its result.
RaisePaint(q, code, err) ==
    LET status == IF code = 0 THEN 500 ELSE code
    IN IF q.kind = "assemble"
       THEN Finish([q EXCEPT !.paint_error = err, !.paint_status = status],
                   {<<"paint_bot", status>>}, 200, "")
       ELSE Finish(q, {}, status, err)

\* assemble_bot that records the paint result but keeps merged_path.
ReturnPaintKeepsMerged(q) ==
    IF q.kind = "assemble"
    THEN Finish([q EXCEPT !.painted = TRUE, !.paint_status = 200],
                {<<"paint_bot", 200>>}, 200, "")
    ELSE Finish([q EXCEPT !.painted = TRUE], {}, 200, "")

\* paint_bot returns; in assemble_bot the painted file replaces merged_path.
ReturnPaint(q) ==
    IF q.kind = "assemble"
    THEN Finish([q EXCEPT !.painted = TRUE, !.paint_status = 200,
                          !.merged_path = "painted", !.file_size = "painted"],
                {<<"paint_bot", 200>>}, 200, "")
    ELSE Finish([q EXCEPT !.painted = TRUE], {}, 200, "")

\* An exception inside paint_bot's try block, raised by a step that has
\* already made a call: the handler runs in the next step.
Caught(q, code, err) ==
    Go([q EXCEPT !.pc = "p_cleanup", !.pend = code, !.pendErr = err, !.faces = 0])

\* except HTTPException / except Exception: unload_hunyuan3d_paint(), whose
\* result is c; then the exception is re-raised, unless the unload raised.
Handled(q, c, code, err) ==
    IF c.raised THEN RaisePaint(Noted(q, c), 0, "import_error")
    ELSE RaisePaint(Noted(q, c), code, err)

\* The decimation block: faces of the mesh that goes to the backend.  The
\* call of simplify_quadric_decimation delivers `result` faces or raises.
Decimate(faces, raises, result) ==
    IF faces > MAX_PAINT_FACES
    THEN IF raises THEN faces ELSE result
    ELSE faces

DecimateResults == {f \in FaceCounts : f <= MAX_PAINT_FACES}

SearchOutcomes == {"found", "none", "error503", "error500"}

\* GLB lookup (before the try block) and the reference image from image_path.
PaintPath(r) ==
    /\ Runs(r, "p_path")
    /\ LET q == req[r]
           nested == q.kind = "assemble"
       IN \E exists \in (IF nested THEN {TRUE} ELSE BOOLEAN),
             ip \in (IF nested THEN {IF q.base_ref_image THEN "ok" ELSE ""}
                     ELSE {"", "ok", "missing"}),
             sq \in (IF nested THEN {~q.base_ref_image} ELSE BOOLEAN) :
            IF ~exists THEN Step(r, NoCall, NoBackend, RaisePaint(q, 404, "not_found"))
            ELSE IF ip = "ok"
            THEN Step(r, NoCall, NoBackend,
                      Because("image_given", Go([q EXCEPT !.pc = "p_unload_h"])))
            ELSE IF sq
            THEN Step(r, NoCall, NoBackend, Go([q EXCEPT !.pc = "p_search"]))
            ELSE LET c == unload_hunyuan3d_paint(G)
                 IN Step(r, c, NoBackend,
                         Because("no_image", Handled(q, c, 400, "empty_input")))

\* `await search_image(...)` returns or raises.
PaintSearch(r) ==
    /\ Resumes(r, "p_search")
    /\ \E res \in SearchOutcomes :
         IF res = "found"
         THEN Step(r, NoCall, NoBackend, Go([req[r] EXCEPT !.pc = "p_unload_h"]))
         ELSE LET c == unload_hunyuan3d_paint(G)
              IN Step(r, c, NoBackend,
                      CASE res = "none" ->
                             Because("no_image", Handled(req[r], c, 400, "empty_input"))
                        [] res = "error503" -> Handled(req[r], c, 503, "search_failed")
                        [] res = "error500" -> Handled(req[r], c, 500, "search_failed"))

PaintUnloadH(r) ==
    /\ Runs(r, "p_unload_h")
    /\ LET c == unload_hunyuan3d(G)
           q == Noted(req[r], c)
       IN Step(r, c, NoBackend,
               IF c.raised THEN Caught(q, 0, "import_error")
               ELSE Go([q EXCEPT !.pc = "p_unload_t"]))

PaintUnloadT(r) ==
    /\ Runs(r, "p_unload_t")
    /\ LET c == unload_triposg(G)
           q == Noted(req[r], c)
       IN Step(r, c, NoBackend,
               IF c.raised THEN Caught(q, 0, "import_error")
               ELSE Go([q EXCEPT !.pc = "p_get"]))

PaintGet(r) ==
    /\ Runs(r, "p_get")
    /\ \E out \in LoadOutcomes :
         LET c == get_hunyuan3d_paint(G, out, NewObject("paint"))
             q == Noted(req[r], c)
         IN Step(r, c, NoBackend,
                 IF c.ret = None THEN Caught(q, 503, "model_unavailable")
                 ELSE Go([q EXCEPT !.pc = "p_load", !.pipe = c.ret, !.holds = "paint"]))

\* trimesh.load, extract_single_mesh, then the decimation block.
PaintLoad(r) ==
    /\ Runs(r, "p_load")
    /\ \E ok \in BOOLEAN, f \in FaceCounts, raises \in BOOLEAN,
          result \in DecimateResults :
         IF ok
         THEN Step(r, NoCall, NoBackend,
                   Go([req[r] EXCEPT !.pc = "p_invoke",
                                     !.faces = Decimate(f, raises, result)]))
         ELSE LET c == unload_hunyuan3d_paint(G)
              IN Step(r, c, NoBackend, Handled(req[r], c, 0, "internal"))

\* textured_mesh = paint_pipe(mesh, image=ref_image); export; getsize
PaintInvoke(r) ==
    /\ Runs(r, "p_invoke")
    /\ \E ok \in BOOLEAN :
         LET b == Backend("paint", req[r].pipe, req[r].faces)
         IN IF ok
            THEN Step(r, NoCall, b, Go([req[r] EXCEPT !.pc = "p_release", !.faces = 0]))
            ELSE LET c == unload_hunyuan3d_paint(G)
                 IN Step(r, c, b, Handled(req[r], c, 0, "generation_failed"))

\* unload_hunyuan3d_paint() on the success path, then return.
PaintRelease(r) ==
    /\ Runs(r, "p_release")
    /\ LET c == unload_hunyuan3d_paint(G)
           q == Noted(req[r], c)
       IN Step(r, c, NoBackend,
               IF c.raised THEN Caught(q, 0, "import_error") ELSE ReturnPaint(q))

\* The handlers' unload_hunyuan3d_paint() and re-raise, for an exception
\* raised in an earlier step.
PaintCleanup(r) ==
    /\ Runs(r, "p_cleanup")
    /\ LET c == unload_hunyuan3d_paint(G)
       IN Step(r, c, NoBackend, Handled(req[r], c, req[r].pend, req[r].pendErr))

\* ------------------------------------------- POST /assemble (821-1009)

\* assemble_bot calls _generate_hunyuan3d or _generate_from_bytes for the
\* base (0) or for attachment i + 1.
Calling(q) ==
    [q EXCEPT !.calls = Append(@, IF q.stage = "base" THEN 0 ELSE q.i + 1)]

\* assemble_bot takes the base or attachment i + 1 without a generation call.
Ungenerated(q) ==
    [q EXCEPT !.nogen = @ \cup {IF q.stage = "base" THEN 0 ELSE q.i + 1}]

\* Source resolution that takes a text prompt whatever the engine.
SourceTextAnyEngine(glb, text, engine, img, query) ==
    IF glb # "" THEN "glb"
    ELSE IF text THEN "text"
    ELSE IF img # "" THEN "image"
    ELSE IF query THEN "search"
    ELSE "none"

\* Which branch of the source resolution a base or an attachment takes:
\* glb: glb_path is given; text: text prompt with engine hunyuan3d;
\* image: image_path is given; search: search_query is given; none.
Source(glb, text, engine, img, query) ==
    IF glb # "" THEN "glb"
    ELSE IF text /\ engine = "hunyuan3d" THEN "text"
    ELSE IF img # "" THEN "image"
    ELSE IF query THEN "search"
    ELSE "none"

Files == {"", "ok", "missing"}

\* The engine of a base or attachment; the code compares it with
\* "hunyuan3d" only, so "triposg" stands for every other value.
Engines == {"triposg", "hunyuan3d"}

\* assemble_bot that frees TripoSG before it looks at the base GLB path.
ABaseUnloadsFirst(r) ==
    /\ Runs(r, "a_base")
    /\ LET c == unload_triposg(G)
           q == Noted(req[r], c)
       IN Step(r, c, NoBackend,
               Because("glb_missing", Finish(q, {}, 404, "not_found")))

\* Step 1: the base mesh, up to the generation call.
ABase(r) ==
    /\ Runs(r, "a_base")
    /\ \E glb \in Files, text \in BOOLEAN, engine \in Engines, img \in Files,
          query \in BOOLEAN :
         LET s == Source(glb, text, engine, img, query)
             q == [req[r] EXCEPT !.engine = engine, !.base_src = s]
             res == Resolution(TRUE, glb, text, engine, img, query, s)
         IN CASE s = "glb" ->
                   Step(r, NoCall, NoBackend,
                        Resolving(res,
                          IF glb = "missing"
                          THEN Because("glb_missing", Finish(q, {}, 404, "not_found"))
                          ELSE Go([Ungenerated(q) EXCEPT !.pc = "a_load_base",
                                                        !.engine = ""])))
              [] s = "text" ->
                   LET c == unload_triposg(G)
                       q1 == Noted(q, c)
                   IN Step(r, c, NoBackend,
                           Resolving(res,
                             IF c.raised THEN Finish(q1, {}, 500, "import_error")
                             ELSE Go([Calling(q1) EXCEPT !.pc = "h_get",
                                                         !.prompt = TRUE,
                                                         !.image = FALSE])))
              [] s = "image" ->
                   Step(r, NoCall, NoBackend,
                        Resolving(res, Go([q EXCEPT !.pc = "a_gen", !.imgfile = img])))
              [] s = "search" ->
                   Step(r, NoCall, NoBackend,
                        Resolving(res, Go([q EXCEPT !.pc = "a_base_search"])))
              [] s = "none" ->
                   Step(r, NoCall, NoBackend,
                        Resolving(res,
                          Because("no_source", Finish(q, {}, 400, "empty_input"))))

\* search_image saves what it finds under OUTPUT_DIR and returns the web
\* path /parts/generated/<id>.png; assemble_bot opens that path under
\* PROJECT_ROOT, where the file may or may not be.
FoundFiles == {"ok", "missing"}

\* assemble_bot without `except HTTPException: raise`: the 400 is wrapped
\* into a 500 by `except Exception`.
ABaseSearchWraps(r) ==
    /\ Resumes(r, "a_base_search")
    /\ \E res \in SearchOutcomes, file \in FoundFiles :
         Step(r, NoCall, NoBackend,
              CASE res = "found" -> Go([req[r] EXCEPT !.pc = "a_gen", !.imgfile = file])
                [] res = "none" ->
                     Because("no_source", Finish(req[r], {}, 500, "internal"))
                [] res = "error503" -> Finish(req[r], {}, 500, "search_failed")
                [] res = "error500" -> Finish(req[r], {}, 500, "search_failed"))

\* `await search_image(...)` for the base returns or raises.
ABaseSearch(r) ==
    /\ Resumes(r, "a_base_search")
    /\ \E res \in SearchOutcomes, file \in FoundFiles :
         Step(r, NoCall, NoBackend,
              CASE res = "found" -> Go([req[r] EXCEPT !.pc = "a_gen", !.imgfile = file])
                [] res = "none" ->
                     Because("no_source", Finish(req[r], {}, 400, "empty_input"))
                [] res = "error503" -> Finish(req[r], {}, 503, "search_failed")
                [] res = "error500" -> Finish(req[r], {}, 500, "search_failed"))

\* Image-to-3D for the base or an attachment: the engine branch up to the
\* generation call.  Opening a missing image file raises.
AGen(r) ==
    /\ Runs(r, "a_gen")
    /\ LET q == req[r]
       IN IF q.engine = "hunyuan3d"
          THEN LET c == unload_triposg(G)
                   q1 == Noted(q, c)
               IN Step(r, c, NoBackend,
                       IF c.raised THEN Finish(q1, {}, 500, "import_error")
                       ELSE IF q.imgfile = "missing"
                       THEN Because("image_missing", Finish(q1, {}, 500, "internal"))
                       ELSE Go([Calling(q1) EXCEPT !.pc = "h_get", !.prompt = FALSE,
                                                   !.image = TRUE, !.imgfile = "",
                                                   !.engine = ""]))
          ELSE Step(r, NoCall, NoBackend,
                    IF q.imgfile = "missing"
                    THEN Because("image_missing", Finish(q, {}, 500, "internal"))
                    ELSE Go([Calling(q) EXCEPT !.pc = "b_get", !.imgfile = "",
                                               !.engine = ""]))

\* trimesh.load + extract_single_mesh of the base; then the attachment loop
\* starts.
ALoadBase(r) ==
    /\ Runs(r, "a_load_base")
    /\ \E ok \in BOOLEAN :
         Step(r, NoCall, NoBackend,
              IF ok THEN Go([req[r] EXCEPT !.pc = "a_att", !.stage = "att",
                                           !.meshes = 1,
                                           !.i = 0, !.prompt = FALSE,
                                           !.image = FALSE, !.engine = ""])
              ELSE Finish(req[r], {}, 500, "internal"))

\* A skip that records a placeholder in generated_parts.
SkipAppends(q) ==
    [q EXCEPT !.i = @ + 1, !.pc = "a_att", !.engine = "", !.parts = Append(@, q.i + 1)]

\* The next attachment is skipped (no mesh, no entry in generated_parts).
Skip(q) == [Ungenerated(q) EXCEPT !.i = @ + 1, !.pc = "a_att", !.engine = ""]

\* Step 2: one attachment, up to the generation call; or the end of the loop.
\* req.attachments holds at most MaxAtt entries; `last` says that attachment
\* i was the last one.
AAtt(r) ==
    /\ Runs(r, "a_att")
    /\ \E last \in (IF req[r].i = MaxAtt THEN {TRUE} ELSE BOOLEAN) :
       IF last
       THEN Step(r, NoCall, NoBackend,
                 Go([req[r] EXCEPT !.pc = "a_unload_h", !.stage = "merge", !.i = 0]))
       ELSE \E glb \in Files, text \in BOOLEAN, engine \in Engines, img \in Files,
               query \in BOOLEAN :
              LET q == [req[r] EXCEPT !.engine = engine]
                  s == Source(glb, text, engine, img, query)
                  res == Resolution(FALSE, glb, text, engine, img, query, s)
              IN CASE s = "glb" ->
                        Step(r, NoCall, NoBackend,
                             Resolving(res,
                               IF glb = "missing"
                               THEN Because("glb_missing",
                                            Finish(q, {}, 404, "not_found"))
                               ELSE Go([Ungenerated(q) EXCEPT !.pc = "a_load_att",
                                                             !.engine = ""])))
                   [] s = "text" ->
                        LET c == unload_triposg(G)
                            q1 == Noted(q, c)
                        IN Step(r, c, NoBackend,
                                Resolving(res,
                                  IF c.raised THEN Finish(q1, {}, 500, "import_error")
                                  ELSE Go([Calling(q1) EXCEPT !.pc = "h_get",
                                                              !.prompt = TRUE,
                                                              !.image = FALSE])))
                   [] s = "image" ->
                        Step(r, NoCall, NoBackend,
                             Resolving(res,
                               Go([q EXCEPT !.pc = "a_gen", !.imgfile = img])))
                   [] s = "search" ->
                        Step(r, NoCall, NoBackend,
                             Resolving(res, Go([q EXCEPT !.pc = "a_att_search"])))
                   [] s = "none" ->
                        Step(r, NoCall, NoBackend,
                             Resolving(res, Because("no_source", Go(Skip(q)))))

AAttSearch(r) ==
    /\ Resumes(r, "a_att_search")
    /\ \E res \in SearchOutcomes, file \in FoundFiles :
         Step(r, NoCall, NoBackend,
              CASE res = "found" -> Go([req[r] EXCEPT !.pc = "a_gen", !.imgfile = file])
                [] res = "none" -> Because("no_source", Go(Skip(req[r])))
                [] res = "error503" ->
                     Because("search_failed", Finish(req[r], {}, 503, "search_failed"))
                [] res = "error500" ->
                     Because("search_failed", Finish(req[r], {}, 500, "search_failed")))

\* The attachment meshes, scales, slots and base box of the /assemble
\* requests: one slot of the table and one that is not in it.
AssembleSlots == {"left_hand", "tail"}

AttachmentMesh == << <<0, 0, 0>>, <<200, 0, 0>>, <<400, 300, 0>> >>

AttachmentScales == {1, 2}

BaseBox == <<<<0, 0, 0>>, <<2, 4, 2>>>>

\* Load, scale and position the attachment's mesh.
ALoadAtt(r) ==
    /\ Runs(r, "a_load_att")
    /\ \E ok \in BOOLEAN, slot \in AssembleSlots, scale \in AttachmentScales :
         LET pl == PositionAttachment(AttachmentMesh, scale, BaseBox, slot)
         IN Step(r, NoCall, NoBackend,
                 IF ~ok
                 THEN Because("load_failed", Finish(req[r], {}, 500, "internal"))
                 ELSE IF pl.raised
                 THEN Placing(pl, Because("slot_failed",
                                          Finish(req[r], {}, 500, "internal")))
                 ELSE Placing(pl, Go([req[r] EXCEPT !.pc = "a_att", !.i = @ + 1,
                                                    !.meshes = @ + 1,
                                                    !.prompt = FALSE, !.image = FALSE,
                                                    !.engine = ""])))

\* unload_hunyuan3d() before the merge.
AUnloadH(r) ==
    /\ Runs(r, "a_unload_h")
    /\ LET c == unload_hunyuan3d(G)
           q == Noted(req[r], c)
       IN Step(r, c, NoBackend,
               IF c.raised THEN Finish(q, {}, 500, "import_error")
               ELSE Go([q EXCEPT !.pc = "a_unload_t"]))

\* unload_triposg() before the merge.
AUnloadT(r) ==
    /\ Runs(r, "a_unload_t")
    /\ LET c == unload_triposg(G)
           q == Noted(req[r], c)
       IN Step(r, c, NoBackend,
               IF c.raised THEN Finish(q, {}, 500, "import_error")
               ELSE Go([q EXCEPT !.pc = "a_merge"]))

\* Step 3: concatenate and export; then the rig stage, the paint stage or
\* `return result`, as auto_rig and auto_paint say.
AMerge(r) ==
    /\ Runs(r, "a_merge")
    /\ \E ok \in BOOLEAN, auto_rig \in BOOLEAN, auto_paint \in BOOLEAN :
         LET q == [req[r] EXCEPT !.merged_path = "merged", !.file_size = "merged",
                                 !.meshes = 0, !.auto_rig = auto_rig,
                                 !.auto_paint = auto_paint]
         IN Step(r, NoCall, NoBackend,
                 IF ~ok THEN Finish(req[r], {}, 500, "internal")
                 ELSE IF auto_rig
                 THEN Go([q EXCEPT !.pc = "r_path", !.stage = "rig",
                                   !.rig_input = "merged"])
                 ELSE AfterRig(q, {}))

\* --------------------------------------------------- requests, lifespan

StartRecord(kind) ==
    CASE kind = "generate" -> {[Idle EXCEPT !.kind = kind, !.pc = "g_get"]}
      [] kind = "generate_text" -> {[Idle EXCEPT !.kind = kind, !.pc = "t_check"]}
      [] kind = "assemble" ->
           {[Idle EXCEPT !.kind = kind, !.pc = "a_base", !.stage = "base"]}
      [] kind = "rig" -> {[Idle EXCEPT !.kind = kind, !.pc = "r_path"]}
      [] kind = "paint" -> {[Idle EXCEPT !.kind = kind, !.pc = "p_path"]}
      [] kind = "h3d" ->
           {[Idle EXCEPT !.kind = kind, !.pc = "h_get", !.prompt = p, !.image = i] :
              p \in BOOLEAN, i \in BOOLEAN}

NoEvent ==
    [r |-> 0, fn |-> "", ret |-> None, loaded |-> FALSE, raised |-> FALSE,
     changed |-> FALSE, backend |-> NoBackend, done |-> {}, resp |-> NoResp,
     note |-> "", placed |-> NoPlacement, src |-> NoResolution]

\* A request arrives and its handler starts running.  Of two overlapping
\* requests at most one is an /assemble: a suspended /assemble holds no handle
\* and touches none, and every change of the handles that a running /assemble
\* makes is also made by a /generate, /generate-text, /rig or /paint request,
\* any number of which may run while the other request is suspended.
Start(r, kinds) ==
    /\ cur = 0 /\ server = "up" /\ req[r] = Idle
    /\ \A r2 \in Requests : r2 < r => req[r2] # Idle   \* the lowest free slot
    /\ \E kind \in kinds : \E q \in StartRecord(kind) :
         /\ kind = "assemble" => \A r2 \in Requests : req[r2].kind # "assemble"
         /\ req' = [req EXCEPT ![r] = q]
         /\ cur' = r
         /\ ev' = [NoEvent EXCEPT !.r = r]
    /\ UNCHANGED <<triposg_pipe, rmbg_net, hunyuan3d_pipe, hunyuan3d_text2img,
                   hunyuan3d_paint, torch_ok, server>>

Request(r) == Start(r, Kinds)

\* One request at a time: a request arrives only when no other is in flight.
RequestAlone(r) ==
    /\ \A r2 \in Requests : req[r2] = Idle
    /\ Start(r, Kinds)

\* The endpoints, and _generate_hunyuan3d called on its own, one at a time.
CallAlone(r) ==
    /\ \A r2 \in Requests : req[r2] = Idle
    /\ Start(r, Kinds \cup {"h3d"})

\* The operations a suspended handler is inside of.
Inside(q) ==
    {OpOf(q.kind)} \cup (IF q.kind = "assemble" /\ q.pc = "p_search"
                         THEN {"paint_bot"} ELSE {})

\* A suspended handler's task is cancelled: CancelledError passes every
\* `except Exception` and `except HTTPException`.
Cancel(r) ==
    /\ cur = 0 /\ req[r].pc \in AwaitPcs
    /\ req' = [req EXCEPT ![r] = Idle]
    /\ ev' = [NoEvent EXCEPT !.r = r, !.done = {<<op, 0>> : op \in Inside(req[r])},
                             !.resp = Resp(req[r], 0, "cancelled")]
    /\ UNCHANGED <<triposg_pipe, rmbg_net, hunyuan3d_pipe, hunyuan3d_text2img,
                   hunyuan3d_paint, torch_ok, server, cur>>

LifespanEvent(c, done) ==
    [NoEvent EXCEPT !.fn = c.fn, !.raised = c.raised, !.changed = c.m # G,
                    !.done = IF done
                             THEN {<<"lifespan", IF c.raised THEN 500 ELSE 200>>}
                             ELSE {}]

\* lifespan after `yield`: unload_triposg()
ShutdownTriposg ==
    /\ server = "up" /\ cur = 0
    /\ \A r \in Requests : req[r] = Idle
    /\ LET c == unload_triposg(G)
       IN /\ SetG(c.m)
          /\ server' = IF c.raised THEN "down" ELSE "stopping"
          /\ ev' = LifespanEvent(c, c.raised)
    /\ UNCHANGED <<torch_ok, req, cur>>

\* lifespan after `yield`: unload_hunyuan3d()
ShutdownHunyuan ==
    /\ server = "stopping"
    /\ LET c == unload_hunyuan3d(G)
       IN /\ SetG(c.m)
          /\ server' = "down"
          /\ ev' = LifespanEvent(c, TRUE)
    /\ UNCHANGED <<torch_ok, req, cur>>

\* ------------------------------------------------------- specifications

Init ==
    /\ triposg_pipe = None
    /\ rmbg_net = None
    /\ hunyuan3d_pipe = None
    /\ hunyuan3d_text2img = None
    /\ hunyuan3d_paint = None
    /\ torch_ok \in BOOLEAN
    /\ server = "up"
    /\ req = [r \in Requests |-> Idle]
    /\ cur = 0
    /\ ev = NoEvent

Handler(r) ==
    \/ GenGet(r) \/ GenRead(r) \/ GenInfer(r)
    \/ GenTextCheck(r) \/ GenTextUnload(r)
    \/ H3dGet(r) \/ H3dText2Img(r) \/ H3dShape(r)
    \/ GfbGet(r) \/ GfbInfer(r)
    \/ RigPath(r) \/ RigRun(r)
    \/ PaintPath(r) \/ PaintSearch(r) \/ PaintUnloadH(r) \/ PaintUnloadT(r)
    \/ PaintGet(r) \/ PaintLoad(r) \/ PaintInvoke(r) \/ PaintRelease(r)
    \/ PaintCleanup(r)
    \/ ABase(r) \/ ABaseSearch(r) \/ AGen(r) \/ ALoadBase(r) \/ AAtt(r)
    \/ AAttSearch(r) \/ ALoadAtt(r) \/ AUnloadH(r) \/ AUnloadT(r) \/ AMerge(r)
    \/ Cancel(r)

Lifespan == ShutdownTriposg \/ ShutdownHunyuan

\* Requests may overlap: handlers interleave at their await points.
Next == (\E r \in Requests : Request(r) \/ Handler(r)) \/ Lifespan

Spec == Init /\ [][Next]_vars

\* Requests are served one at a time.
NextSeq == (\E r \in Requests : RequestAlone(r) \/ Handler(r)) \/ Lifespan

SpecSeq == Init /\ [][NextSeq]_vars

\* One call at a time, of an endpoint or of _generate_hunyuan3d on its own.
NextFn == (\E r \in Requests : CallAlone(r) \/ Handler(r)) \/ Lifespan

SpecFn == Init /\ [][NextFn]_vars

\* The positioning block of assemble_bot applied to one attachment, with
\* the base box, the slot, the scale and the mesh drawn from bounded sets.
Place ==
    /\ server = "up"
    /\ cur = 0
    /\ \A q \in Requests : req[q] = Idle
    /\ \E bounds \in Boxes, slot \in AttSlots, scale \in Scales, mesh \in Meshes :
         ev' = [NoEvent EXCEPT
                  !.placed = PositionAttachment(mesh, scale, bounds, slot)]
    /\ UNCHANGED <<triposg_pipe, rmbg_net, hunyuan3d_pipe, hunyuan3d_text2img,
                   hunyuan3d_paint, torch_ok, server, req, cur>>

\* One request at a time, or one positioning at a time.
NextPlace == NextSeq \/ Place

SpecPlace == Init /\ [][NextPlace]_vars

\* ------------------------------------------------------------ properties

ModelHandles == {"triposg_pipe", "hunyuan3d_pipe", "hunyuan3d_text2img",
                 "hunyuan3d_paint"}

Resident == {h \in ModelHandles : G[h] # None}

\* C1: with the endpoints called one at a time, at most one of triposg_pipe,
\* hunyuan3d_pipe, hunyuan3d_text2img and hunyuan3d_paint is non-None in
\* every reachable state.
C1_AtMostOneResident == Cardinality(Resident) <= 1

\* C2: when a generation call that needs one model kind ends normally, no
\* model of another kind that the call did not need is still resident: after
\* a TripoSG generation no Hunyuan3D shape, text-to-image or paint model,
\* after a Hunyuan3D generation no TripoSG and no paint model.
C2_OtherKindReleased ==
    /\ (\E op \in {"generate_3d", "_generate_from_bytes"} : <<op, 200>> \in ev.done)
         => Resident \subseteq {"triposg_pipe"}
    /\ <<"_generate_hunyuan3d", 200>> \in ev.done
         => Resident \subseteq {"hunyuan3d_pipe", "hunyuan3d_text2img"}

\* C3: while a /generate request holds the pipeline it obtained from
\* get_triposg_models and has not finished invoking it, that pipeline is
\* still the module's triposg_pipe: no other request has released it.
C3_HeldHandleNotReleased ==
    \A r \in Requests :
        (req[r].kind = "generate" /\ req[r].pc \in {"g_await", "g_infer"})
            => triposg_pipe = req[r].pipe

\* C4: a /generate, /generate-text or /paint call to which a loader returned
\* no model fails with 503 and has changed none of the five handles.
C4_FailedLoadChangesNothing ==
    (ev.resp.kind \in {"generate", "generate_text", "paint"} /\ ev.resp.loadFailed)
        => (ev.resp.status = 503 /\ ~ev.resp.touched)

\* The handle a loader tests and returns.
HandleOf(fn) ==
    CASE fn = "get_triposg_models" -> triposg_pipe
      [] fn = "get_hunyuan3d_model" -> hunyuan3d_pipe
      [] fn = "get_hunyuan3d_text2img" -> hunyuan3d_text2img
      [] fn = "get_hunyuan3d_paint" -> hunyuan3d_paint

\* C5: a get_* loader called while its handle is non-None returns that
\* handle, loads nothing and leaves all five handles as they were.
C5_ResidentLoaderReturnsHandle ==
    [][\A fn \in Getters :
         (ev'.fn = fn /\ HandleOf(fn) # None)
            => (ev'.ret = HandleOf(fn) /\ ~ev'.loaded /\ G' = G)]_vars

\* A loader was called with its model resident, after another request had
\* loaded it.
C5_Witness ==
    /\ ev.fn \in {"get_triposg_models", "get_hunyuan3d_model", "get_hunyuan3d_text2img"}
    /\ ev.ret # None /\ ~ev.loaded

\* C6: an unload_* call made while all five handles are None raises no
\* error and leaves them None.
C6_UnloadOfNothingIsNoOp ==
    [][(ev'.fn \in Unloaders /\ G = NoModels)
         => (~ev'.raised /\ G' = NoModels)]_vars

\* C7: whenever a call of paint_bot has ended, by returning, by any error or
\* by cancellation, on its own or inside assemble_bot, hunyuan3d_paint is None.
C7_PaintReleasedWhenPaintEnds ==
    (\E e \in ev.done : e[1] = "paint_bot") => hunyuan3d_paint = None

\* paint_bot ended with an error raised by the paint pipeline it had loaded.
C7_Witness ==
    /\ ev.backend.model = "paint" /\ ev.backend.handle # None
    /\ \E e \in ev.done : e[1] = "paint_bot" /\ e[2] = 500

\* C8: once the shutdown hook has run, all five handles are None.
C8_ShutdownReleasesAll == server = "down" => G = NoModels

\* The shutdown hook ended with a call of unload_hunyuan3d that released a
\* model left resident by an earlier request.
C8_Witness ==
    server = "down" /\ ev.fn = "unload_hunyuan3d" /\ ev.changed /\ ~ev.raised

\* C9: the mesh handed to the paint pipeline has at most MAX_PAINT_FACES
\* faces.
C9_PaintedMeshWithinLimit ==
    ev.backend.model = "paint" => ev.backend.faces <= MAX_PAINT_FACES

\* C10: a call of _generate_hunyuan3d, /generate-text or /paint that is
\* rejected with 400 for empty input has called no get_* loader and has
\* changed no handle.
C10_RejectedBeforeAcquisition ==
    (ev.resp.status = 400 /\ ev.resp.err = "empty_input")
        => (~ev.resp.acquired /\ ~ev.resp.touched)

\* An /assemble handler ended, by a return or by an HTTP error, not by a
\* cancellation.
AssembleEnded == ev.resp.kind = "assemble" /\ ev.resp.status # 0

\* C11: when the rig stage of /assemble failed and the paint stage was not
\* run or failed too, /assemble returned a result (200) with rig_error set
\* and merged_path the merged file.
C11_RigFailureIsNotFatal ==
    (AssembleEnded /\ ev.resp.rig_status \notin {0, 200} /\ ev.resp.paint_status # 200)
        => /\ ev.resp.status = 200
           /\ ev.resp.rig_error # ""
           /\ ev.resp.merged_path = "merged"

\* /assemble returned after the rigging tool was missing and no paint stage.
C11_Witness ==
    /\ AssembleEnded /\ ev.resp.rig_status = 503 /\ ev.resp.paint_status = 0
    /\ <<"rig_bot", 503>> \in ev.done

\* C12: when the rigging tool exited with code zero without writing its
\* output file, the assembly result has rig_error set and reports no rig
\* success.
C12_MissingRigOutputIsFailure ==
    (AssembleEnded /\ ev.resp.rigged = "none")
        => (ev.resp.rig_error # "" /\ ev.resp.rig_status # 200)

\* C13: when the paint stage of /assemble failed, /assemble returned a
\* result (200) with paint_error set and with merged_path and file_size as
\* the merge stage set them.
C13_PaintFailureIsNotFatal ==
    (AssembleEnded /\ ev.resp.paint_status \notin {0, 200})
        => /\ ev.resp.status = 200
           /\ ev.resp.paint_error # ""
           /\ ev.resp.merged_path = "merged"
           /\ ev.resp.file_size = "merged"

\* /assemble returned after the paint pipeline it had loaded raised.
C13_Witness ==
    /\ AssembleEnded /\ ev.resp.paint_status = 500
    /\ ev.backend.model = "paint" /\ <<"paint_bot", 500>> \in ev.done

\* C14: a result of /assemble names the painted file and its size when the
\* paint stage succeeded, and the merged file and its size in every other
\* run.
C14_PaintedSupersedesMerged ==
    (AssembleEnded /\ ev.resp.status = 200)
        => IF ev.resp.paint_status = 200
           THEN ev.resp.merged_path = "painted" /\ ev.resp.file_size = "painted"
           ELSE ev.resp.merged_path = "merged" /\ ev.resp.file_size = "merged"

\* /assemble returned after a successful paint stage.
C14_Witness ==
    /\ AssembleEnded /\ ev.resp.paint_status = 200
    /\ <<"paint_bot", 200>> \in ev.done /\ ev.fn = "unload_hunyuan3d_paint"

\* C15: an attachment without a source (no GLB path, no usable text prompt,
\* no image given or found) is skipped: the step adds no mesh and no entry
\* to generated_parts, and the loop goes on with the next attachment.
C15_AttachmentWithoutSourceSkipped ==
    [][\A r \in Requests :
         (ev'.r = r /\ ev'.note = "no_source"
            /\ req[r].kind = "assemble" /\ req[r].stage = "att")
         => /\ req'[r].kind = "assemble" /\ req'[r].pc = "a_att"
            /\ req'[r].i = req[r].i + 1
            /\ req'[r].parts = req[r].parts
            /\ req'[r].meshes = req[r].meshes]_vars

\* The first attachment had no source and the loop stands at the second.
C15_Witness ==
    \E r \in Requests :
        /\ ev.r = r /\ ev.note = "no_source"
        /\ req[r].kind = "assemble" /\ req[r].pc = "a_att" /\ req[r].i = 1
        /\ req[r].meshes = 1

GenerationOps == {"_generate_hunyuan3d", "_generate_from_bytes"}

\* C16: when an attachment's GLB or image file is missing, its image search
\* raises, its generation fails or its mesh cannot be loaded and positioned,
\* /assemble ends in that step with an error status: no result, no later
\* attachment, no later stage.
C16_AttachmentFailureIsFatal ==
    [][\A r \in Requests :
         (/\ ev'.r = r /\ req[r].kind = "assemble" /\ req[r].stage = "att"
          /\ \/ ev'.note \in {"glb_missing", "image_missing", "search_failed",
                            "load_failed"}
             \/ \E e \in ev'.done : e[1] \in GenerationOps /\ e[2] # 200)
         => /\ req'[r] = Idle
            /\ ev'.resp.kind = "assemble"
            /\ ev'.resp.status \notin {0, 200}]_vars

\* /assemble ended because Hunyuan3D was unavailable for an attachment.
C16_Witness ==
    /\ AssembleEnded /\ ev.resp.stage = "att" /\ ev.resp.status = 503
    /\ <<"_generate_hunyuan3d", 503>> \in ev.done

\* C17: an /assemble run that ended with an error failed in base resolution
\* or in the merge.
C17_OnlyBaseAndMergeAbort ==
    (AssembleEnded /\ ev.resp.status # 200) => ev.resp.stage \in {"base", "merge"}

\* C17, as the code has it: a failure in rig or paint never aborts the run;
\* once the merged file is written, /assemble returns a result.
C17_RigAndPaintNeverAbort ==
    (AssembleEnded /\ (ev.resp.merged_path # "" \/ ev.resp.stage \in {"rig", "paint"}))
        => ev.resp.status = 200

\* /assemble returned a result although both the rig and the paint stage
\* failed.
C17_Witness ==
    /\ AssembleEnded /\ ev.resp.status = 200
    /\ ev.resp.rig_status \notin {0, 200} /\ ev.resp.paint_status \notin {0, 200}

\* C18: the error that ends /assemble in base resolution or merge has the
\* class of its cause: 404 for an absent base GLB or base image file, 503
\* for an unavailable model, 400 for missing input, 500 for nothing of these.
C18_ErrorClassMatchesCause ==
    (AssembleEnded /\ ev.resp.status # 200 /\ ev.resp.stage \in {"base", "merge"})
        => /\ ev.note \in {"glb_missing", "image_missing"} => ev.resp.status = 404
           /\ ev.resp.loadFailed => ev.resp.status = 503
           /\ ev.note = "no_source" => ev.resp.status = 400
           /\ ev.resp.status = 500 => (ev.note = "" /\ ~ev.resp.loadFailed)

\* C19: /assemble with a base GLB path whose file is absent ends with 404
\* having called no loader or unloader, changed no handle, generated no part
\* and written no merged file.
C19_MissingBaseGlbHasNoEffect ==
    (AssembleEnded /\ ev.resp.stage = "base" /\ ev.note = "glb_missing")
        => /\ ev.resp.status = 404
           /\ ev.fn = "" /\ ~ev.changed
           /\ ~ev.resp.touched /\ ~ev.resp.acquired
           /\ ev.resp.parts = <<>> /\ ev.resp.merged_path = ""

\* The 404 for the base GLB came while models of earlier requests were
\* resident.
C19_Witness ==
    /\ AssembleEnded /\ ev.resp.stage = "base" /\ ev.note = "glb_missing"
    /\ triposg_pipe # None

\* C20: /assemble whose base has no source, or whose image search found
\* nothing, ends with 400 having called no loader, changed no handle and
\* generated no part.
C20_BaseWithoutSourceRejected ==
    (AssembleEnded /\ ev.resp.stage = "base" /\ ev.note = "no_source")
        => /\ ev.resp.status = 400
           /\ ~ev.resp.touched /\ ~ev.resp.acquired
           /\ ev.resp.parts = <<>> /\ ev.resp.merged_path = ""

\* The 400 came after the image search for the base, during which another
\* request had loaded a model.
C20_Witness ==
    /\ AssembleEnded /\ ev.resp.stage = "base" /\ ev.note = "no_source"
    /\ ev.resp.status = 400 /\ hunyuan3d_pipe # None /\ triposg_pipe # None

\* The stages of assemble_bot in program order.
StageRank(stage) ==
    CASE stage = "base" -> 1
      [] stage = "att" -> 2
      [] stage = "merge" -> 3
      [] stage = "rig" -> 4
      [] stage = "paint" -> 5
      [] OTHER -> 0

\* C21: within one /assemble run the stage never goes back in the order
\* base, attachments, merge, rig, paint; the attachments are taken in request
\* order; once the merged file is written the run is never again in a stage
\* up to the merge; and the run is in the rig or paint stage only with the
\* merged file written.
C21_StagesInOrder ==
    [][\A r \in Requests :
         (req[r].kind = "assemble" /\ req'[r].kind = "assemble")
         => /\ StageRank(req'[r].stage) >= StageRank(req[r].stage)
            /\ (req[r].stage = "att" /\ req'[r].stage = "att")
                 => req'[r].i \in {req[r].i, req[r].i + 1}
            /\ req[r].merged_path # ""
                 => (req'[r].merged_path # "" /\ req'[r].stage \in {"rig", "paint"})
            /\ req'[r].stage \in {"rig", "paint"} => req'[r].merged_path # ""]_vars

\* A run that generated its base and an attachment and went through the rig
\* stage stands in the paint stage.
C21_Witness ==
    \E r \in Requests :
        /\ req[r].kind = "assemble" /\ req[r].stage = "paint"
        /\ req[r].rig_status # 0 /\ Len(req[r].parts) = 2

RigErrorSeen ==
    IF ev.resp.kind = "rig" THEN ev.resp.err
    ELSE IF ev.resp.kind = "assemble" THEN ev.resp.rig_error
    ELSE IF ev.r \in Requests THEN req[ev.r].rig_error
    ELSE ""

\* C23: a rigging process that exited with a non-zero code ends rig_bot with
\* the tool-failure error (500, with the stderr tail), and one that ran into
\* the timeout ends it with the timeout error (504); neither ends it with a
\* normal return or with the other's error.
C23_RigToolFailureReported ==
    /\ ev.note = "nonzero"
         => /\ \A e \in ev.done : e[1] = "rig_bot" => e[2] = 500
            /\ <<"rig_bot", 500>> \in ev.done
            /\ RigErrorSeen = "tool_failed"
    /\ ev.note = "timeout"
         => /\ \A e \in ev.done : e[1] = "rig_bot" => e[2] = 504
            /\ <<"rig_bot", 504>> \in ev.done
            /\ RigErrorSeen = "timeout"

\* A /rig request ended with the timeout error.
C23_Witness ==
    ev.note = "timeout" /\ ev.resp.kind = "rig" /\ ev.resp.status = 504

\* Some attachment was positioned by the last step.
Placed == ev.placed # NoPlacement

\* C24: for each of the twelve slots of the table, the slot position on a
\* box is, per axis, min + (max - min) * fraction of that slot; on the box
\* (0,0,0)-(2,4,2) the slot head is at (1,4,1).
C24_SlotPositionFromBox ==
    Placed /\ ev.placed.slot \in DOMAIN SLOT_MAP
      => LET bb == ev.placed.bounds
             f == SLOT_MAP[ev.placed.slot]
         IN /\ ~ev.placed.raised
            /\ \A k \in 1..3 :
                 ev.placed.slot_pos[k]
                   = 100 * bb[1][k] + (bb[2][k] - bb[1][k]) * f[k]
            /\ (bb = <<<<0, 0, 0>>, <<2, 4, 2>>>> /\ ev.placed.slot = "head")
                 => ev.placed.slot_pos = <<100, 400, 100>>

C24_Witness ==
    /\ Placed
    /\ ev.placed.slot = "bottom"
    /\ ev.placed.bounds = <<<<-1, 1, 2>>, <<1, 5, 4>>>>
    /\ ev.placed.slot_pos = <<0, 80, 300>>

\* C25: a slot name that is not in the table is never an error: the
\* attachment gets the position of slot top, and the /assemble request goes
\* on to its next attachment.
C25_UnknownSlotIsTop ==
    Placed /\ ev.placed.slot \notin DOMAIN SLOT_MAP
      => LET bb == ev.placed.bounds
         IN /\ ~ev.placed.raised
            /\ \A k \in 1..3 :
                 ev.placed.slot_pos[k]
                   = 100 * bb[1][k] + (bb[2][k] - bb[1][k]) * SLOT_MAP["top"][k]
            /\ ev.r \in Requests
                 => /\ ev.resp = NoResp
                    /\ req[ev.r].kind = "assemble"
                    /\ req[ev.r].pc = "a_att"

C25_Witness ==
    /\ Placed
    /\ ev.placed.slot = "tail"
    /\ ev.placed.slot_pos = <<100, 440, 100>>
    /\ ev.r \in Requests
    /\ req[ev.r].pc = "a_att"
    /\ req[ev.r].meshes = 2

\* C26: after positioning, the attachment is its mesh scaled by the
\* request's factor and moved without further change of size, and its
\* centroid is the slot position.
C26_CentroidAtSlot ==
    Placed /\ ~ev.placed.raised
      => LET m == ev.placed.mesh
             res == ev.placed.result
         IN /\ Len(res) = Len(m)
            /\ centroid(res) = ev.placed.slot_pos
            /\ \A j \in 1..Len(m) : \A k \in 1..3 :
                 res[j][k] - res[1][k] = ev.placed.scale * (m[j][k] - m[1][k])

C26_Witness ==
    /\ Placed
    /\ ev.placed.scale = 3
    /\ ev.placed.slot = "waist"
    /\ ev.placed.mesh = << <<-100, 100, 100>>, <<-100, 100, 500>> >>
    /\ ev.placed.bounds = <<<<0, 0, 0>>, <<2, 4, 2>>>>
    /\ ev.placed.result = << <<100, 160, -500>>, <<100, 160, 700>> >>

\* C27: with one request at a time, when an /assemble request returns a
\* result, with or without rig_error or paint_error, none of the five
\* model handles is set.
C27_AssembleLeavesNothingResident ==
    AssembleEnded /\ ev.resp.status = 200 => G = NoModels

C27_Witness ==
    /\ AssembleEnded
    /\ ev.resp.status = 200
    /\ ev.resp.parts # <<>>
    /\ ev.resp.paint_error # ""
    /\ G = NoModels

\* C28: in every reachable state, with requests interleaving at their
\* awaits, when hunyuan3d_paint is set, triposg_pipe, hunyuan3d_pipe and
\* hunyuan3d_text2img are all None.
C28_PaintResidentAlone ==
    hunyuan3d_paint # None
      => /\ triposg_pipe = None
         /\ hunyuan3d_pipe = None
         /\ hunyuan3d_text2img = None

C28_Witness ==
    /\ hunyuan3d_paint # None
    /\ triposg_pipe = None
    /\ hunyuan3d_pipe = None
    /\ hunyuan3d_text2img = None
    /\ \E q \in Requests : req[q].pc \in AwaitPcs /\ req[q].kind = "generate"

\* C29: with one request at a time, whenever /generate-text or /assemble is
\* about to run _generate_hunyuan3d, triposg_pipe and rmbg_net are both None.
C29_TriposgGoneBeforeHunyuan ==
    \A r \in Requests :
        (req[r].kind \in {"generate_text", "assemble"} /\ req[r].pc = "h_get")
          => triposg_pipe = None /\ rmbg_net = None

C29_Witness ==
    \E r \in Requests :
        /\ req[r].kind = "assemble"
        /\ req[r].pc = "h_get"
        /\ req[r].image
        /\ ev.fn = "unload_triposg"
        /\ ev.changed
        /\ triposg_pipe = None
        /\ rmbg_net = None

\* C30: in a returned /assemble result, parts_generated has one entry for
\* each generation call of the run, in the order of the calls, the base
\* before the attachments and the attachments in request order; a base or
\* attachment taken from a GLB file, and a skipped attachment, has no entry.
C30_OneEntryPerGenerationCall ==
    AssembleEnded /\ ev.resp.status = 200
      => LET parts == ev.resp.parts
         IN /\ parts = ev.resp.calls
            /\ \A j, k \in 1..Len(parts) : j < k => parts[j] < parts[k]
            /\ \A j \in 1..Len(parts) : parts[j] \notin ev.resp.nogen

C30_Witness ==
    /\ AssembleEnded
    /\ ev.resp.status = 200
    /\ ev.resp.parts = <<0, 2>>
    /\ ev.resp.calls = <<0, 2>>
    /\ ev.resp.nogen = {1}

\* C31: /assemble takes a text prompt as the source only with engine
\* hunyuan3d. With a text prompt and another engine the resolution goes on
\* as without the prompt: to the image if there is one, else to the search
\* if there is a query, and with neither an attachment is skipped and a
\* base is rejected with 400; TripoSG is not unloaded by that step.
C31_TextPromptNeedsHunyuan ==
    (ev.src.route # "" /\ ev.src.text /\ ev.src.engine # "hunyuan3d")
      => /\ ev.src.route = (IF ev.src.img # "" THEN "image"
                            ELSE IF ev.src.query THEN "search"
                            ELSE "none")
         /\ ev.fn = ""
         /\ ev.src.route \in {"image", "search"}
              => /\ ev.resp = NoResp
                 /\ req[ev.r].pc = (IF ev.src.route = "image" THEN "a_gen"
                                    ELSE IF ev.src.base THEN "a_base_search"
                                    ELSE "a_att_search")
         /\ (ev.src.route = "none" /\ ev.src.base)
              => /\ ev.resp.kind = "assemble"
                 /\ ev.resp.status = 400
                 /\ ev.resp.err = "empty_input"
                 /\ ev.resp.calls = <<>>
         /\ (ev.src.route = "none" /\ ~ev.src.base)
              => /\ ev.resp = NoResp
                 /\ req[ev.r].pc = "a_att"
                 /\ req[ev.r].i \in req[ev.r].nogen
                 /\ \A j \in 1..Len(req[ev.r].calls) :
                      req[ev.r].calls[j] # req[ev.r].i

C31_Witness ==
    /\ ev.src.text
    /\ ev.src.engine = "triposg"
    /\ ~ev.src.base
    /\ ev.src.route = "none"
    /\ ev.r \in Requests
    /\ req[ev.r].pc = "a_att"
    /\ req[ev.r].i = 2
    /\ req[ev.r].nogen = {2}

\* C32: in /assemble the rig stage and the paint stage are both given the
\* merged file; when both succeed, merged_path names the painted file and
\* the rigged file is named by the field rigged only.
C32_RigAndPaintTakeMergedFile ==
    /\ \A r \in Requests :
         req[r].kind = "assemble"
           => /\ req[r].stage = "rig" => req[r].rig_input = "merged"
              /\ req[r].stage = "paint" => req[r].paint_input = "merged"
    /\ AssembleEnded
         => /\ ev.resp.rig_status # 0 => ev.resp.rig_input = "merged"
            /\ ev.resp.paint_status # 0 => ev.resp.paint_input = "merged"
            /\ (ev.resp.paint_status = 200 /\ ev.resp.rig_status = 200
                  /\ ev.resp.rigged = "rigged")
                 => /\ ev.resp.status = 200
                    /\ ev.resp.merged_path = "painted"
                    /\ ev.resp.file_size = "painted"

C32_Witness ==
    /\ AssembleEnded
    /\ ev.resp.status = 200
    /\ ev.resp.rig_status = 200
    /\ ev.resp.rigged = "rigged"
    /\ ev.resp.paint_status = 200
    /\ ev.resp.rig_input = "merged"
    /\ ev.resp.paint_input = "merged"
    /\ ev.resp.merged_path = "painted"

====
